---- MODULE Spec2Model ----
(***************************************************************************)
(* Model of src/src/lib.rs: the BrowserFingerprinter session, its          *)
(* capability probe, canvas fingerprint, WebGL introspection (typed and    *)
(* reflective paths) and the canonical hash over 13 record fields.         *)
(*                                                                         *)
(* Conventions.                                                            *)
(*   - A Rust String is a TLA+ string; Option<T> is a sequence (<<>> is    *)
(*     None, <<v>> is Some(v)); Result<T, E> is Ok(v) / Err(e).            *)
(*   - A value coming back from the host is a JsValue record with a tag t: *)
(*     "throw" (the call or property read raised, the binding returns      *)
(*     Err), "undef" (null or undefined), "str", "num", "int", "bool",     *)
(*     "arr", "obj".                                                       *)
(*   - An f64 is an integer number of tenths (15 is 1.5).                  *)
(*   - SHA-256 followed by hex encoding is an ideal digest: an injective   *)
(*     tagging of the bytes it was fed.                                    *)
(*   - Bindings whose Rust type has no Result (navigator.languages(),      *)
(*     get_supported_extensions() on a typed context, ...) are modelled on *)
(*     hosts that honour that signature.                                   *)
(***************************************************************************)
EXTENDS Integers, Sequences, FiniteSets, TLC

VARIABLES
    host,         \* the simulated host capability surface collect() probes
    fingerprint,  \* BrowserFingerprinter.fingerprint : Option<Fingerprint>
    prev,         \* history: the held record when the latest collect() was entered
    collectRet,   \* history: Result of the latest collect() (<<>> before the first)
    snap,         \* history: the host surface the latest collect() ran against
    glTrace,      \* history: context names requested / path taken by the latest get_webgl_info
    lastGood,     \* history: record built by the latest successful collect()
    hashRet,      \* history: <<value>> returned by a get_hash() made since the latest
                  \* collect() (or since construction), <<>> if none was made
    nChanges,     \* number of host mutations so far
    nCollects     \* number of collect() calls so far

vars == <<host, fingerprint, prev, collectRet, snap, glTrace, lastGood,
          hashRet, nChanges, nCollects>>

\* ------------------------------------------------------------------ bounds
MaxHostChanges == 1   \* capability outages injected into the host (Spec)
MaxFieldChanges == 2  \* field values changed on the host (SpecHash)
MaxGLChanges == 2     \* graphics capabilities changed before collecting (SpecGL)
MaxCollects == 2      \* collect() calls on the session

\* ------------------------------------------------------- Option and Result
None == <<>>
Some(v) == <<v>>
IsSome(o) == o # <<>>
Ok(v) == [ok |-> TRUE, val |-> <<v>>, err |-> ""]
Err(e) == [ok |-> FALSE, val |-> <<>>, err |-> e]

\* ---------------------------------------------------------------- JsValue
Throw == [t |-> "throw"]
Undef == [t |-> "undef"]
Obj == [t |-> "obj"]
Str(s) == [t |-> "str", v |-> s]
Num(n) == [t |-> "num", v |-> n]
I32(n) == [t |-> "int", v |-> n]
Bool(b) == [t |-> "bool", v |-> b]
Arr(a) == [t |-> "arr", v |-> a]

IsString(j) == j.t = "str"
as_string(j) == IF j.t = "str" THEN Some(j.v) ELSE None
as_f64(j) == IF j.t = "num" THEN Some(j.v) ELSE None
as_bool(j) == IF j.t = "bool" THEN Some(j.v) ELSE None
\* Result<i32, JsValue>::unwrap_or(d) of a host integer property
I32Or(j, d) == IF j.t = "int" THEN j.v ELSE d
unwrap_or(o, d) == IF IsSome(o) THEN o[1] ELSE d

\* filter_map(|i| arr.get(i).as_string()) over a JS array
StringsOf(a) ==
    LET s == SelectSeq(a, IsString)
    IN  [i \in 1..Len(s) |-> s[i].v]

\* ------------------------------------------------------ numeric conversions
\* Host numbers in the model stay far below 2^31, so the upper saturation points of
\* the casts are out of reach; the lower one of `as u32` (negative to 0) is modelled.

\* truncation toward zero of an f64 given in tenths
Trunc(t) == IF t < 0 THEN -((-t) \div 10) ELSE t \div 10
\* `f64 as u32`: truncating, saturating at 0
F64AsU32(t) == IF t < 0 THEN 0 ELSE Trunc(t)
\* `f64 as i32`: truncating
F64AsI32(t) == Trunc(t)

Digit(d) == <<"0", "1", "2", "3", "4", "5", "6", "7", "8", "9">>[d + 1]
RECURSIVE NatToString(_)
NatToString(n) == IF n < 10 THEN Digit(n) ELSE NatToString(n \div 10) \o Digit(n % 10)
\* integer Display
IntToString(n) == IF n < 0 THEN "-" \o NatToString(-n) ELSE NatToString(n)
\* f64 Display of a value given in tenths: "2", "1.5", "-0.5"
F64ToString(t) ==
    LET a == IF t < 0 THEN -t ELSE t
        whole == NatToString(a \div 10)
        frac == IF a % 10 = 0 THEN "" ELSE "." \o Digit(a % 10)
    IN  (IF t < 0 THEN "-" ELSE "") \o whole \o frac

\* Sha256::new() ... update(bytes) ... hex::encode(finalize())
Sha256Hex(bytes) == "sha256:" \o bytes

\* ------------------------------------------------------- program constants
VENDOR == 7936
RENDERER == 7937
VERSION == 7938
SHADING_LANGUAGE_VERSION == 35724
UNMASKED_VENDOR_WEBGL == 37445
UNMASKED_RENDERER_WEBGL == 37446

\* ------------------------------------------------------------ host surface
\* The debug extension object and the two enum properties the typed path reads from it.
Ext(v, r) == [t |-> "ext", vendor |-> v, renderer |-> r]
Plugin(n, d) == [t |-> "plugin", name |-> n, description |-> d]
Mime(ty) == [t |-> "mime", type |-> ty]

FnStates == {"fn", "missing", "getter_throws"}
ParamAnswers(s) == {Throw, Undef, Str(s)}

\* Capability outages: each property with its healthy value and the ways it can be
\* missing or failing.
OutageDomain == [
    window |-> BOOLEAN,
    screen |-> BOOLEAN,
    document |-> BOOLEAN,
    userAgent |-> {Throw, Str("UA")},
    language |-> {Undef, Str("en")},
    languages |-> {Arr(<<>>), Arr(<<Undef>>), Arr(<<Str("en")>>)},
    platform |-> {Throw, Str("Win32")},
    cookieEnabled |-> {Throw, Undef, Bool(TRUE)},
    doNotTrack |-> {Throw, Undef, Str("1")},
    deviceMemory |-> {Throw, Undef, Num(80)},
    width |-> {Throw, I32(1920)},
    height |-> {Throw, I32(1080)},
    colorDepth |-> {Throw, I32(24)},
    pixelDepth |-> {Throw, I32(24)},
    availWidth |-> {Throw, I32(1920)},
    availHeight |-> {Throw, I32(1040)},
    intl |-> {"ok", "Intl_throws", "DateTimeFormat_throws", "DateTimeFormat_not_fn",
              "DateTimeFormat_call_throws", "resolvedOptions_throws",
              "resolvedOptions_not_fn", "resolvedOptions_call_throws",
              "timeZone_throws"},
    timeZone |-> {Undef, Str("UTC")},
    localStorage |-> {Throw, Undef, Obj},
    sessionStorage |-> {Throw, Undef, Obj},
    indexedDB |-> {Throw, Undef, Obj},
    canvasElement |-> {"throws", "other", "canvas"},
    context2d |-> {"throws", "null", "other", "ctx2d"},
    draw |-> {"ok", "fill_text_1", "fill_text_2", "arc", "to_data_url"},
    plugins |-> {Throw, Arr(<<>>)},
    mimeTypes |-> {Throw, Arr(<<>>)},
    glCanvasElement |-> {"throws", "other", "canvas"},
    webgl |-> {"throws", "null", "legacy"},
    getParameter |-> {"fn", "missing"}
]

\* Field values: the host values behind the 13 hashed fields and behind fields the
\* hash leaves out.
FieldDomain == [
    userAgent |-> {Str("UA"), Str("UAe"), Str("UB")},
    language |-> {Str("en"), Str("n")},
    platform |-> {Str("Win3"), Str("Win32")},
    hardwareConcurrency |-> {-10, 20, 225},
    width |-> {Throw, I32(1920), I32(1921)},
    height |-> {I32(1080), I32(-1)},
    colorDepth |-> {I32(24), I32(30)},
    devicePixelRatio |-> {10, 15},
    timeZone |-> {Str("UTC"), Str("Europe/Paris")},
    timezoneOffset |-> {-600, 0, 3005},
    dataUrl |-> {"data:A", "data:B"},
    pUnmaskedVendor |-> {Str("ACME"), Str("Apex")},
    pUnmaskedRenderer |-> {Str("ACME GPU"), Str("GPU")},
    onLine |-> BOOLEAN,
    plugins |-> {Arr(<<>>), Arr(<<Plugin("PDF", "Viewer"), Undef>>)},
    mimeTypes |-> {Arr(<<>>), Arr(<<Mime("application/pdf")>>)},
    localStorage |-> {Undef, Obj},
    supportedExtensions |-> {Arr(<<>>), Arr(<<Str("OES_a"), Undef, Str("OES_b")>>)}
]

\* Graphics capabilities: what the canvas and the 3D context answer.
GLDomain == [
    glCanvasElement |-> {"throws", "other", "canvas"},
    webgl |-> {"throws", "null", "legacy", "object"},
    experimentalWebgl |-> {"throws", "null", "legacy", "object"},
    webgl2 |-> {"throws", "null", "object"},
    getParameter |-> FnStates,
    getExtension |-> FnStates,
    getSupportedExtensions |-> FnStates,
    debugExt |-> {Throw, Undef,
                  Ext(Num(10 * UNMASKED_VENDOR_WEBGL), Num(10 * UNMASKED_RENDERER_WEBGL)),
                  Ext(Undef, Undef)},
    pVendor |-> ParamAnswers("WebKit"),
    pRenderer |-> ParamAnswers("WebKit WebGL"),
    pVersion |-> ParamAnswers("WebGL 1.0"),
    pShading |-> ParamAnswers("GLSL ES 1.0"),
    pUnmaskedVendor |-> ParamAnswers("ACME"),
    pUnmaskedRenderer |-> ParamAnswers("ACME GPU"),
    supportedExtensions |-> {Throw, Undef, Arr(<<>>), Arr(<<Str("OES_a"), Undef, Str("OES_b")>>)}
]

\* A desktop browser with every capability present.
BaseHost == [
    window |-> TRUE, screen |-> TRUE, document |-> TRUE,
    userAgent |-> Str("UA"), language |-> Str("en"), languages |-> Arr(<<Str("en")>>),
    platform |-> Str("Win32"), cookieEnabled |-> Bool(TRUE), doNotTrack |-> Undef,
    hardwareConcurrency |-> 20, deviceMemory |-> Num(80), maxTouchPoints |-> 0,
    width |-> I32(1920), height |-> I32(1080), colorDepth |-> I32(24),
    pixelDepth |-> I32(24), availWidth |-> I32(1920), availHeight |-> I32(1040),
    devicePixelRatio |-> 10, intl |-> "ok", timeZone |-> Str("UTC"), timezoneOffset |-> 0,
    localStorage |-> Obj, sessionStorage |-> Obj, indexedDB |-> Obj,
    canvasElement |-> "canvas", context2d |-> "ctx2d", draw |-> "ok", dataUrl |-> "data:A",
    plugins |-> Arr(<<>>), mimeTypes |-> Arr(<<>>), onLine |-> TRUE,
    glCanvasElement |-> "canvas", webgl |-> "legacy", experimentalWebgl |-> "legacy",
    webgl2 |-> "object",
    getParameter |-> "fn", getExtension |-> "fn", getSupportedExtensions |-> "fn",
    debugExt |-> Ext(Num(10 * UNMASKED_VENDOR_WEBGL), Num(10 * UNMASKED_RENDERER_WEBGL)),
    pVendor |-> Str("WebKit"), pRenderer |-> Str("WebKit WebGL"),
    pVersion |-> Str("WebGL 1.0"), pShading |-> Str("GLSL ES 1.0"),
    pUnmaskedVendor |-> Str("ACME"), pUnmaskedRenderer |-> Str("ACME GPU"),
    supportedExtensions |-> Arr(<<Str("OES_a"), Undef, Str("OES_b")>>)
]

\* What the context's getParameter answers for a parameter code.
GetParam(h, code) ==
    CASE code = VENDOR -> h.pVendor
      [] code = RENDERER -> h.pRenderer
      [] code = VERSION -> h.pVersion
      [] code = SHADING_LANGUAGE_VERSION -> h.pShading
      [] code = UNMASKED_VENDOR_WEBGL -> h.pUnmaskedVendor
      [] code = UNMASKED_RENDERER_WEBGL -> h.pUnmaskedRenderer
      [] OTHER -> Undef

\* ------------------------------------------------------- capability probe
get_languages(h) ==
    LET result == StringsOf(h.languages.v)
    IN  IF result = <<>> /\ IsSome(as_string(h.language))
        THEN <<as_string(h.language)[1]>>
        ELSE result

get_cookie_enabled(h) == unwrap_or(as_bool(h.cookieEnabled), FALSE)

get_do_not_track(h) == as_string(h.doNotTrack)

get_device_memory(h) ==
    IF ~h.window THEN None ELSE as_f64(h.deviceMemory)

\* mutant: the fallback is the empty string instead of the sentinel
get_timezone_empty_fallback(h) ==
    IF h.intl = "ok" /\ IsSome(as_string(h.timeZone))
    THEN as_string(h.timeZone)[1]
    ELSE ""

get_timezone(h) ==
    IF h.intl = "ok" /\ IsSome(as_string(h.timeZone))
    THEN as_string(h.timeZone)[1]
    ELSE "Unknown"

check_indexed_db(h) ==
    IF h.window THEN h.indexedDB.t \notin {"throw", "undef"} ELSE FALSE

\* window.local_storage().ok().flatten().is_some()
storage_available(j) == j.t = "obj"

get_plugins(h) ==
    IF h.plugins.t # "arr" THEN <<>>
    ELSE LET present == SelectSeq(h.plugins.v, LAMBDA x : x.t = "plugin")
         IN  [i \in 1..Len(present) |->
                 present[i].name \o " (" \o present[i].description \o ")"]

get_mime_types(h) ==
    IF h.mimeTypes.t # "arr" THEN <<>>
    ELSE LET present == SelectSeq(h.mimeTypes.v, LAMBDA x : x.t = "mime")
         IN  [i \in 1..Len(present) |-> present[i].type]

\* ----------------------------------------------------- canvas fingerprint
generate_canvas_fingerprint(h) ==
    IF h.canvasElement = "throws" THEN Err("create_element")
    ELSE IF h.canvasElement # "canvas" THEN Err("not an HtmlCanvasElement")
    ELSE IF h.context2d = "throws" THEN Err("get_context")
    ELSE IF h.context2d = "null" THEN Err("Failed to get 2d context")
    ELSE IF h.context2d # "ctx2d" THEN Err("not a CanvasRenderingContext2d")
    ELSE IF h.draw \in {"fill_text_1", "fill_text_2"} THEN Err("fill_text")
    ELSE IF h.draw = "arc" THEN Err("arc")
    ELSE IF h.draw = "to_data_url" THEN Err("to_data_url")
    ELSE Ok(Sha256Hex(h.dataUrl))

\* ------------------------------------------------------ WebGL introspection
WebGlInfo(vendor, renderer, version, shading, extensions) ==
    [vendor |-> vendor, renderer |-> renderer, version |-> version,
     shading_version |-> shading, extensions |-> extensions]

NotAvailable ==
    WebGlInfo("Not available", "Not available", "Not available", "Not available", <<>>)

\* gl.get_parameter(code) through the typed binding: Result<JsValue, JsValue>
TypedGetParameter(h, code) ==
    IF h.getParameter # "fn" THEN Throw ELSE GetParam(h, code)

\* gl.get_parameter(code).ok().and_then(|v| v.as_string())
TypedParamString(h, code) == as_string(TypedGetParameter(h, code))

\* gl.get_extension("WEBGL_debug_renderer_info").ok().flatten()
TypedDebugInfo(h) ==
    IF h.getExtension = "fn" /\ h.debugExt.t = "ext" THEN Some(h.debugExt) ELSE None

\* Reflect::get(&debug_ext, name).ok().and_then(|v| v.as_f64()).map(|v| v as u32)
UnmaskedEnum(j) == IF j.t = "num" THEN Some(F64AsU32(j.v)) ELSE None

\* unmasked_enum.and_then(get_parameter).and_then(as_string).unwrap_or_else(masked)
UnmaskedOrMasked(h, enum, masked) ==
    LET unmasked == IF IsSome(enum) THEN TypedParamString(h, enum[1]) ELSE None
    IN  IF IsSome(unmasked) THEN unmasked[1]
        ELSE unwrap_or(TypedParamString(h, masked), "")

TypedExtensions(h) ==
    IF h.supportedExtensions.t = "arr" THEN StringsOf(h.supportedExtensions.v) ELSE <<>>

get_webgl1_info(h) ==
    LET debug_info == TypedDebugInfo(h)
        vendor == IF IsSome(debug_info)
                  THEN UnmaskedOrMasked(h, UnmaskedEnum(debug_info[1].vendor), VENDOR)
                  ELSE unwrap_or(TypedParamString(h, VENDOR), "")
        renderer == IF IsSome(debug_info)
                    THEN UnmaskedOrMasked(h, UnmaskedEnum(debug_info[1].renderer), RENDERER)
                    ELSE unwrap_or(TypedParamString(h, RENDERER), "")
        version == unwrap_or(TypedParamString(h, VERSION), "")
        shading == unwrap_or(TypedParamString(h, SHADING_LANGUAGE_VERSION), "")
    IN  Ok(WebGlInfo(vendor, renderer, version, shading, TypedExtensions(h)))

\* get_parameter_fn.call1(&gl, code)? .as_string().unwrap_or_default(), as a Result
ReflectParam(h, code) ==
    IF GetParam(h, code).t = "throw" THEN Err("getParameter call")
    ELSE Ok(unwrap_or(as_string(GetParam(h, code)), ""))

\* Reflect::get(&gl, name)? followed by dyn_into::<Function>()?
ReflectFunction(state, name) ==
    IF state = "getter_throws" THEN Err("Reflect::get " \o name)
    ELSE IF state # "fn" THEN Err(name \o " is not a function")
    ELSE Ok(name)

ReflectExtensions(h) ==
    IF h.supportedExtensions.t = "arr" THEN StringsOf(h.supportedExtensions.v) ELSE <<>>

get_webgl_info_via_reflection(h) ==
    LET get_parameter_fn == ReflectFunction(h.getParameter, "getParameter")
        get_extension_fn == ReflectFunction(h.getExtension, "getExtension")
        unmasked == h.debugExt.t \notin {"undef", "throw"}
        vendor == ReflectParam(h, IF unmasked THEN UNMASKED_VENDOR_WEBGL ELSE VENDOR)
        renderer == ReflectParam(h, IF unmasked THEN UNMASKED_RENDERER_WEBGL ELSE RENDERER)
        version == ReflectParam(h, VERSION)
        shading == ReflectParam(h, SHADING_LANGUAGE_VERSION)
        get_supported_extensions_fn ==
            ReflectFunction(h.getSupportedExtensions, "getSupportedExtensions")
    IN  IF ~get_parameter_fn.ok THEN get_parameter_fn
        ELSE IF ~get_extension_fn.ok THEN get_extension_fn
        ELSE IF h.debugExt.t = "throw" THEN Err("getExtension call")
        ELSE IF ~vendor.ok THEN vendor
        ELSE IF ~renderer.ok THEN renderer
        ELSE IF ~version.ok THEN version
        ELSE IF ~shading.ok THEN shading
        ELSE IF ~get_supported_extensions_fn.ok THEN get_supported_extensions_fn
        ELSE IF h.supportedExtensions.t = "throw" THEN Err("getSupportedExtensions call")
        ELSE Ok(WebGlInfo(vendor.val[1], renderer.val[1], version.val[1],
                          shading.val[1], ReflectExtensions(h)))

\* canvas.get_context(name).ok().flatten(): the context object, if one came back
ContextOf(answer) == IF answer \in {"legacy", "object"} THEN Some(answer) ELSE None

\* The typed bindings without a Result (get_supported_extensions) are only defined on
\* a context whose enumeration function exists and returns.
TypedContract(h) == h.getSupportedExtensions = "fn" /\ h.supportedExtensions.t # "throw"

\* mutant: having no 3D context is reported as an error
get_webgl_info_strict(h) ==
    IF h.glCanvasElement = "throws"
    THEN [result |-> Err("create_element"), requests |-> <<>>, path |-> "error"]
    ELSE IF h.glCanvasElement # "canvas"
    THEN [result |-> Err("not an HtmlCanvasElement"), requests |-> <<>>, path |-> "error"]
    ELSE
    LET first == ContextOf(h.webgl)
        gl_result == IF IsSome(first) THEN first ELSE ContextOf(h.experimentalWebgl)
        older == <<"webgl">> \o (IF IsSome(first) THEN <<>> ELSE <<"experimental-webgl">>)
    IN  IF gl_result = Some("legacy")
        THEN [result |-> get_webgl1_info(h), requests |-> older, path |-> "typed"]
        ELSE IF IsSome(ContextOf(h.webgl2))
        THEN [result |-> get_webgl_info_via_reflection(h),
              requests |-> older \o <<"webgl2">>, path |-> "reflection"]
        ELSE [result |-> Err("WebGL not available"), requests |-> older \o <<"webgl2">>,
              path |-> "none"]

\* mutant: `.or(...)` instead of `.or_else(...)`, the second alias is always requested
get_webgl_info_eager(h) ==
    IF h.glCanvasElement = "throws"
    THEN [result |-> Err("create_element"), requests |-> <<>>, path |-> "error"]
    ELSE IF h.glCanvasElement # "canvas"
    THEN [result |-> Err("not an HtmlCanvasElement"), requests |-> <<>>, path |-> "error"]
    ELSE
    LET first == ContextOf(h.webgl)
        gl_result == IF IsSome(first) THEN first ELSE ContextOf(h.experimentalWebgl)
        older == <<"webgl", "experimental-webgl">>
    IN  IF gl_result = Some("legacy")
        THEN [result |-> get_webgl1_info(h), requests |-> older, path |-> "typed"]
        ELSE IF IsSome(ContextOf(h.webgl2))
        THEN [result |-> get_webgl_info_via_reflection(h),
              requests |-> older \o <<"webgl2">>, path |-> "reflection"]
        ELSE [result |-> Ok(NotAvailable), requests |-> older \o <<"webgl2">>,
              path |-> "none"]

\* result: the Result get_webgl_info returns; requests: the context names it asked the
\* canvas for, in order; path: the extraction path it returned through.
get_webgl_info(h) ==
    IF h.glCanvasElement = "throws"
    THEN [result |-> Err("create_element"), requests |-> <<>>, path |-> "error"]
    ELSE IF h.glCanvasElement # "canvas"
    THEN [result |-> Err("not an HtmlCanvasElement"), requests |-> <<>>, path |-> "error"]
    ELSE
    LET first == ContextOf(h.webgl)
        gl_result == IF IsSome(first) THEN first ELSE ContextOf(h.experimentalWebgl)
        older == <<"webgl">> \o (IF IsSome(first) THEN <<>> ELSE <<"experimental-webgl">>)
    IN  IF gl_result = Some("legacy")
        THEN [result |-> get_webgl1_info(h), requests |-> older, path |-> "typed"]
        ELSE IF IsSome(ContextOf(h.webgl2))
        THEN [result |-> get_webgl_info_via_reflection(h),
              requests |-> older \o <<"webgl2">>, path |-> "reflection"]
        ELSE [result |-> Ok(NotAvailable), requests |-> older \o <<"webgl2">>,
              path |-> "none"]

\* ---------------------------------------------------------- canonical hash
\* mutant: the connectivity flag is hashed too
HashInputWithOnline(f) ==
    f.user_agent
    \o f.language
    \o f.platform
    \o IntToString(unwrap_or(f.hardware_concurrency, 0))
    \o IntToString(f.screen_width)
    \o IntToString(f.screen_height)
    \o IntToString(f.screen_color_depth)
    \o F64ToString(f.device_pixel_ratio)
    \o f.timezone
    \o IntToString(f.timezone_offset)
    \o f.canvas_fingerprint
    \o f.webgl_vendor
    \o f.webgl_renderer
    \o (IF f.online THEN "true" ELSE "false")

\* mutant: the update for screen_width is missing
HashInputWithoutWidth(f) ==
    f.user_agent
    \o f.language
    \o f.platform
    \o IntToString(unwrap_or(f.hardware_concurrency, 0))
    \o IntToString(f.screen_height)
    \o IntToString(f.screen_color_depth)
    \o F64ToString(f.device_pixel_ratio)
    \o f.timezone
    \o IntToString(f.timezone_offset)
    \o f.canvas_fingerprint
    \o f.webgl_vendor
    \o f.webgl_renderer

\* The bytes the 13 hasher.update calls feed to the digest, in order.
HashInput(f) ==
    f.user_agent
    \o f.language
    \o f.platform
    \o IntToString(unwrap_or(f.hardware_concurrency, 0))
    \o IntToString(f.screen_width)
    \o IntToString(f.screen_height)
    \o IntToString(f.screen_color_depth)
    \o F64ToString(f.device_pixel_ratio)
    \o f.timezone
    \o IntToString(f.timezone_offset)
    \o f.canvas_fingerprint
    \o f.webgl_vendor
    \o f.webgl_renderer

generate_hash(f) == Sha256Hex(HashInput(f))

\* ---------------------------------------------------------------- session
\* The Fingerprint struct literal of collect(), hash still the empty placeholder.
BuildFingerprint(h, canvas_fingerprint, gl) == [
    user_agent |-> unwrap_or(as_string(h.userAgent), ""),
    language |-> unwrap_or(as_string(h.language), ""),
    languages |-> get_languages(h),
    platform |-> unwrap_or(as_string(h.platform), ""),
    cookie_enabled |-> get_cookie_enabled(h),
    do_not_track |-> get_do_not_track(h),
    hardware_concurrency |-> Some(F64AsU32(h.hardwareConcurrency)),
    device_memory |-> get_device_memory(h),
    max_touch_points |-> h.maxTouchPoints,
    screen_width |-> I32Or(h.width, 0),
    screen_height |-> I32Or(h.height, 0),
    screen_color_depth |-> I32Or(h.colorDepth, 0),
    screen_pixel_depth |-> I32Or(h.pixelDepth, 0),
    screen_avail_width |-> I32Or(h.availWidth, 0),
    screen_avail_height |-> I32Or(h.availHeight, 0),
    device_pixel_ratio |-> h.devicePixelRatio,
    timezone |-> get_timezone(h),
    timezone_offset |-> F64AsI32(h.timezoneOffset),
    local_storage |-> storage_available(h.localStorage),
    session_storage |-> storage_available(h.sessionStorage),
    indexed_db |-> check_indexed_db(h),
    canvas_fingerprint |-> canvas_fingerprint,
    webgl_vendor |-> gl.vendor,
    webgl_renderer |-> gl.renderer,
    webgl_version |-> gl.version,
    webgl_shading_language_version |-> gl.shading_version,
    webgl_extensions |-> gl.extensions,
    audio_fingerprint |-> "audio-context-available",
    plugins |-> get_plugins(h),
    mime_types |-> get_mime_types(h),
    online |-> h.onLine,
    fingerprint_hash |-> ""
]

\* mutant: the hash is taken before the graphics fields are filled in
WithHashBeforeGraphics(f) ==
    [f EXCEPT !.fingerprint_hash =
        generate_hash([f EXCEPT !.webgl_vendor = "", !.webgl_renderer = ""])]

\* fingerprint.fingerprint_hash = generate_hash(&fingerprint)
WithHash(f) == [f EXCEPT !.fingerprint_hash = generate_hash(f)]

\* The body of collect() up to the serialization: the first `?` that fails returns its
\* error, otherwise the record is assembled and hashed. (Serializing a struct of
\* strings, numbers, booleans and lists to JSON does not fail.)
TryCollect(h) ==
    LET canvas == generate_canvas_fingerprint(h)
        gl == get_webgl_info(h).result
    IN  IF ~h.window THEN Err("No window object")
        ELSE IF ~h.screen THEN Err("No screen object")
        ELSE IF ~h.document THEN Err("No document object")
        ELSE IF ~canvas.ok THEN canvas
        ELSE IF ~gl.ok THEN gl
        ELSE Ok(WithHash(BuildFingerprint(h, canvas.val[1], gl.val[1])))

\* mutant: the held record is dropped when the call is entered
collect_clearing(self, h) ==
    LET r == TryCollect(h)
    IN  [ret |-> r, held |-> IF r.ok THEN Some(r.val[1]) ELSE None]

\* collect(&mut self): ret is the Result returned (Ok carries the serialized record),
\* held is the value of self.fingerprint when it returns.
collect(self, h) ==
    LET r == TryCollect(h)
    IN  [ret |-> r, held |-> IF r.ok THEN Some(r.val[1]) ELSE self]

\* mutant: the getter reads the canvas digest instead of the final hash
get_hash_canvas(self) == IF IsSome(self) THEN Some(self[1].canvas_fingerprint) ELSE None

\* get_hash(&self)
get_hash(self) == IF IsSome(self) THEN Some(self[1].fingerprint_hash) ELSE None

\* ------------------------------------------------------------ state machine
NoTrace == [requests |-> <<>>, path |-> "unreached"]

InitWith(h) ==
    /\ host = h
    /\ fingerprint = None
    /\ prev = None
    /\ collectRet = <<>>
    /\ snap = <<>>
    /\ glTrace = NoTrace
    /\ lastGood = None
    /\ hashRet = <<>>
    /\ nChanges = 0
    /\ nCollects = 0

Init == InitWith(BaseHost)

\* A browser without the older context family: only "webgl2" yields a context.
WebGl2Host == [BaseHost EXCEPT !.webgl = "null", !.experimentalWebgl = "null"]

InitGL == \E h \in {BaseHost, WebGl2Host} : InitWith(h)

\* The typed path is entered only with a context inside the typed bindings' contract.
HostOK(h) == get_webgl_info(h).path = "typed" => TypedContract(h)

\* The environment changes one property of the host between calls.
Change(domain, max) ==
    /\ nChanges < max
    /\ nCollects < MaxCollects
    /\ \E p \in DOMAIN domain : \E v \in domain[p] \ {host[p]} :
           /\ host' = [host EXCEPT ![p] = v]
           /\ HostOK(host')
    /\ nChanges' = nChanges + 1
    /\ UNCHANGED <<fingerprint, prev, collectRet, snap, glTrace, lastGood,
                   hashRet, nCollects>>

HostChange == Change(OutageDomain, MaxHostChanges)

FieldChange == Change(FieldDomain, MaxFieldChanges)

GLSetup == nCollects = 0 /\ Change(GLDomain, MaxGLChanges)

\* session.collect()
Collect ==
    /\ nCollects < MaxCollects
    /\ LET r == collect(fingerprint, host)
           reached == host.window /\ host.screen /\ host.document
                      /\ generate_canvas_fingerprint(host).ok
       IN  /\ fingerprint' = r.held
           /\ collectRet' = <<r.ret>>
           /\ lastGood' = IF r.ret.ok THEN r.ret.val ELSE lastGood
           /\ glTrace' = IF reached
                         THEN [requests |-> get_webgl_info(host).requests,
                               path |-> get_webgl_info(host).path]
                         ELSE NoTrace
    /\ prev' = fingerprint
    /\ snap' = <<host>>
    /\ hashRet' = <<>>
    /\ nCollects' = nCollects + 1
    /\ UNCHANGED <<host, nChanges>>

\* session.get_hash()
GetHash ==
    /\ hashRet' = <<get_hash(fingerprint)>>
    /\ UNCHANGED <<host, fingerprint, prev, collectRet, snap, glTrace, lastGood,
                   nChanges, nCollects>>

Next == HostChange \/ Collect \/ GetHash
Spec == Init /\ [][Next]_vars

NextHash == FieldChange \/ Collect \/ GetHash
SpecHash == Init /\ [][NextHash]_vars

NextGL == GLSetup \/ Collect \/ GetHash
SpecGL == InitGL /\ [][NextGL]_vars

\* ================================================================= claims
Called == collectRet # <<>>
Failed == Called /\ ~collectRet[1].ok
Succeeded == Called /\ collectRet[1].ok
\* what a caller reads as the hash of a held value
HashOf(held) == IF held = <<>> THEN <<>> ELSE <<held[1].fingerprint_hash>>

\* A host on which one of the fatal steps the claim names fails.
FatalHost(h) ==
    \/ ~h.window
    \/ ~h.document
    \/ h.canvasElement # "canvas"
    \/ h.context2d # "ctx2d"
    \/ h.draw # "ok"

\* C1: a collect() that fails returns an error and leaves the held record exactly as
\* it was when the call was entered; a get_hash() made after the failed call returns
\* what it would have returned before it (absent, or the previous record's hash).
C1_FailedCollectKeepsRecord ==
    /\ (Called /\ FatalHost(snap[1])) => Failed
    /\ Failed => fingerprint = prev
    /\ (Failed /\ hashRet # <<>>) => hashRet[1] = HashOf(prev)

\* C1 witness: a collect() failed on a session that already held a record, and
\* get_hash() was called afterwards.
C1_Witness == Failed /\ prev # <<>> /\ hashRet # <<>>

\* C2: get_hash() leaves the session alone and returns absent exactly when no
\* collect() has succeeded, otherwise the hash of the record the latest successful
\* collect() produced; that record replaces the earlier one wholesale (it is the
\* record a fresh session would hold after collecting on the same host).
C2_GetHashReadsLatestRecord ==
    /\ fingerprint = lastGood
    /\ hashRet # <<>> => hashRet[1] = HashOf(lastGood)
    /\ Succeeded => fingerprint = collect(<<>>, snap[1]).held

\* C2 witness: get_hash() returned a hash after a second successful collect()
\* replaced a different record.
C2_Witness ==
    /\ hashRet # <<>> /\ hashRet[1] # <<>>
    /\ Succeeded /\ prev # <<>> /\ prev # fingerprint

\* The 13 fields the canonical hash includes.
Included(f) ==
    <<f.user_agent, f.language, f.platform, f.hardware_concurrency, f.screen_width,
      f.screen_height, f.screen_color_depth, f.device_pixel_ratio, f.timezone,
      f.timezone_offset, f.canvas_fingerprint, f.webgl_vendor, f.webgl_renderer>>

\* Two records were produced by successive successful collect() runs.
TwoRuns == Succeeded /\ prev # <<>> /\ fingerprint # <<>>

\* C3: two collect() runs whose records agree on the 13 included fields have the
\* same fingerprint_hash, whatever the other fields are.
C3_HashDependsOnlyOnIncluded ==
    (TwoRuns /\ Included(prev[1]) = Included(fingerprint[1]))
        => prev[1].fingerprint_hash = fingerprint[1].fingerprint_hash

\* C3 witness: two runs agree on the included fields and differ in an excluded one.
C3_Witness ==
    /\ TwoRuns
    /\ Included(prev[1]) = Included(fingerprint[1])
    /\ [prev[1] EXCEPT !.fingerprint_hash = ""] # [fingerprint[1] EXCEPT !.fingerprint_hash = ""]

\* The number of included fields in which two records differ.
IncludedDiff(f, g) == Cardinality({i \in 1..13 : Included(f)[i] # Included(g)[i]})

\* C4: two runs whose records differ in exactly one included field feed different
\* byte sequences to the digest, and (the digest being collision free) store
\* different hashes.
C4_OneFieldChangesHashInput ==
    (TwoRuns /\ IncludedDiff(prev[1], fingerprint[1]) = 1)
        => /\ HashInput(prev[1]) # HashInput(fingerprint[1])
           /\ prev[1].fingerprint_hash # fingerprint[1].fingerprint_hash

\* C4 witness: screen_width went from 1920 to 1921 and nothing else included changed.
C4_Witness ==
    /\ TwoRuns
    /\ IncludedDiff(prev[1], fingerprint[1]) = 1
    /\ prev[1].screen_width = 1920 /\ fingerprint[1].screen_width = 1921

\* get_webgl_info ran on a canvas element in the latest collect()
GlRan == Called /\ glTrace.path \in {"typed", "reflection", "none"}
NoContext(h) ==
    /\ ContextOf(h.webgl) = <<>>
    /\ ContextOf(h.experimentalWebgl) = <<>>
    /\ ContextOf(h.webgl2) = <<>>

\* C5: when the canvas element exists and none of "webgl", "experimental-webgl",
\* "webgl2" yields a context, collect() succeeds and the record's four graphics
\* strings are "Not available" and its extension list is empty.
C5_NoGraphicsFallback ==
    (GlRan /\ NoContext(snap[1]))
        => /\ Succeeded
           /\ fingerprint # <<>>
           /\ fingerprint[1].webgl_vendor = "Not available"
           /\ fingerprint[1].webgl_renderer = "Not available"
           /\ fingerprint[1].webgl_version = "Not available"
           /\ fingerprint[1].webgl_shading_language_version = "Not available"
           /\ fingerprint[1].webgl_extensions = <<>>

\* C5 witness: a collect() ran on a host where no context name yields a context.
C5_Witness == GlRan /\ NoContext(snap[1]) /\ Succeeded

\* C6 (as claimed): on a capability surface inside the typed binding's contract, the
\* typed path and the reflective path return the same graphics tuple.
C6_DualPathEquivalence ==
    TypedContract(host) => get_webgl1_info(host) = get_webgl_info_via_reflection(host)

\* C7 (as claimed): once the canvas element exists, whatever the acquired context
\* lacks or fails at, collect() succeeds and stores a record.
C7_GraphicsNeverFatal == GlRan => (Succeeded /\ fingerprint # <<>>)

\* collect() was aborted in the capability-probe stage
ProbeAborted ==
    Failed /\ collectRet[1].err \in
        {"No window object", "No screen object", "No document object"}

\* The documented default of each probed field whose host property is unavailable.
DefaultsOnOutage(h, f) ==
    /\ h.userAgent.t # "str" => f.user_agent = ""
    /\ h.language.t # "str" => f.language = ""
    /\ h.platform.t # "str" => f.platform = ""
    /\ h.cookieEnabled.t # "bool" => f.cookie_enabled = FALSE
    /\ h.doNotTrack.t # "str" => f.do_not_track = <<>>
    /\ h.deviceMemory.t # "num" => f.device_memory = <<>>
    /\ h.width.t # "int" => f.screen_width = 0
    /\ h.height.t # "int" => f.screen_height = 0
    /\ h.colorDepth.t # "int" => f.screen_color_depth = 0
    /\ h.pixelDepth.t # "int" => f.screen_pixel_depth = 0
    /\ h.availWidth.t # "int" => f.screen_avail_width = 0
    /\ h.availHeight.t # "int" => f.screen_avail_height = 0
    /\ (h.intl # "ok" \/ h.timeZone.t # "str") => f.timezone = "Unknown"
    /\ h.localStorage.t # "obj" => f.local_storage = FALSE
    /\ h.sessionStorage.t # "obj" => f.session_storage = FALSE
    /\ h.indexedDB.t # "obj" => f.indexed_db = FALSE
    /\ h.plugins.t # "arr" => f.plugins = <<>>
    /\ h.mimeTypes.t # "arr" => f.mime_types = <<>>
    /\ (h.languages.v = <<>> /\ h.language.t # "str") => f.languages = <<>>

FingerprintFields ==
    {"user_agent", "language", "languages", "platform", "cookie_enabled", "do_not_track",
     "hardware_concurrency", "device_memory", "max_touch_points", "screen_width",
     "screen_height", "screen_color_depth", "screen_pixel_depth", "screen_avail_width",
     "screen_avail_height", "device_pixel_ratio", "timezone", "timezone_offset",
     "local_storage", "session_storage", "indexed_db", "canvas_fingerprint",
     "webgl_vendor", "webgl_renderer", "webgl_version", "webgl_shading_language_version",
     "webgl_extensions", "audio_fingerprint", "plugins", "mime_types", "online",
     "fingerprint_hash"}

\* C9: the held record is absent or complete: every field is there, the canvas digest
\* is filled, and fingerprint_hash is not the empty placeholder but the canonical
\* hash of the stored record's own included fields (so it was computed after the
\* probe, canvas and graphics fields were filled, and before the record was stored).
C9_HeldRecordComplete ==
    fingerprint # <<>> =>
        /\ DOMAIN fingerprint[1] = FingerprintFields
        /\ fingerprint[1].canvas_fingerprint # ""
        /\ fingerprint[1].fingerprint_hash # ""
        /\ fingerprint[1].fingerprint_hash = Sha256Hex(HashInput(fingerprint[1]))

\* C9 witness: a record is held after a second successful collect().
C9_Witness == Succeeded /\ fingerprint # <<>> /\ prev # <<>>

\* the context the two older aliases settled on, if any
OlderContext(h) ==
    IF ContextOf(h.webgl) # <<>> THEN ContextOf(h.webgl) ELSE ContextOf(h.experimentalWebgl)
Requested(name) == \E i \in 1..Len(glTrace.requests) : glTrace.requests[i] = name
\* the requests were made in the order webgl, experimental-webgl, webgl2
InOrder ==
    \A i, j \in 1..Len(glTrace.requests) :
        i < j => \/ glTrace.requests[i] = "webgl"
                 \/ glTrace.requests[j] = "webgl2"

\* C10 (as claimed): "webgl" first, "experimental-webgl" only if "webgl" yielded no
\* context, "webgl2" only if neither older alias yielded a context; if an older alias
\* yields a context the tuple comes from the typed path and "webgl2" is not requested.
C10_AcquisitionOrder ==
    GlRan =>
        /\ glTrace.requests[1] = "webgl" /\ InOrder
        /\ Requested("experimental-webgl") => ContextOf(snap[1].webgl) = <<>>
        /\ Requested("webgl2") => OlderContext(snap[1]) = <<>>
        /\ OlderContext(snap[1]) # <<>> => (glTrace.path = "typed" /\ ~Requested("webgl2"))

\* C10 (amended): "webgl" first, "experimental-webgl" exactly if "webgl" yielded no
\* context, "webgl2" exactly if the older aliases yielded no context that is a
\* WebGlRenderingContext; if they yielded one, the tuple is the typed path's and
\* "webgl2" is not requested.
C10_AcquisitionOrderTyped ==
    GlRan =>
        /\ glTrace.requests[1] = "webgl" /\ InOrder
        /\ Requested("experimental-webgl") <=> ContextOf(snap[1].webgl) = <<>>
        /\ Requested("webgl2") <=> OlderContext(snap[1]) # <<"legacy">>
        /\ OlderContext(snap[1]) = <<"legacy">> =>
               /\ glTrace.path = "typed"
               /\ Succeeded
               /\ fingerprint[1].webgl_vendor = get_webgl1_info(snap[1]).val[1].vendor
               /\ fingerprint[1].webgl_extensions = get_webgl1_info(snap[1]).val[1].extensions

\* C10 witness: "webgl" yielded nothing, "experimental-webgl" a typed context.
C10_Witness ==
    /\ GlRan
    /\ glTrace.requests = <<"webgl", "experimental-webgl">>
    /\ glTrace.path = "typed"


\* C11 (as claimed): the canonical encoding is injective on the 13 included fields:
\* two runs whose records differ in one or more included fields feed different byte
\* sequences to the digest and so store different hashes.
C11_EncodingInjective ==
    (TwoRuns /\ Included(prev[1]) # Included(fingerprint[1]))
        => /\ HashInput(prev[1]) # HashInput(fingerprint[1])
           /\ prev[1].fingerprint_hash # fingerprint[1].fingerprint_hash

====
